---- MODULE Spec2Model ----
(***************************************************************************)
(* j2j: convert JavaScript source text to JSON (src/index.js).             *)
(*                                                                         *)
(* The model follows one invocation of an entry point (j2j, parse, write,  *)
(* output, options, or the command line _main) through the event loop:     *)
(* the synchronous part of the call, the sandbox callback, the promise     *)
(* handlers and the delivery of the completion callback.                   *)
(*                                                                         *)
(* JavaScript values are records [t, s, n, kv]: t is the kind, s the text  *)
(* of a string (or the name of a function), n the value of a number, kv    *)
(* the ordered fields of an object or the elements of an array.            *)
(***************************************************************************)
EXTENDS Integers, Sequences, FiniteSets

(***************************************************************************)
(* Bounds of the model.                                                    *)
(***************************************************************************)
\* number of chunks standard input may deliver before end-of-stream
MaxChunks == 2

\* the number of invocations that may be in flight at the same time
MaxCalls == 2

(***************************************************************************)
(* JavaScript values.                                                      *)
(***************************************************************************)
Undef == [t |-> "undefined", s |-> "", n |-> 0, kv |-> << >>]
Null == [t |-> "null", s |-> "", n |-> 0, kv |-> << >>]
NaN == [t |-> "number", s |-> "NaN", n |-> 0, kv |-> << >>]
Num(i) == [t |-> "number", s |-> "", n |-> i, kv |-> << >>]
Str(x) == [t |-> "string", s |-> x, n |-> 0, kv |-> << >>]
Bool(b) == [t |-> "boolean", s |-> IF b THEN "true" ELSE "false", n |-> 0, kv |-> << >>]
Fn(name) == [t |-> "function", s |-> name, n |-> 0, kv |-> << >>]
Obj(fields) == [t |-> "object", s |-> "", n |-> 0, kv |-> fields]
Arr(elems) == [t |-> "array", s |-> "", n |-> 0, kv |-> elems]
Buf(x) == [t |-> "buffer", s |-> x, n |-> 0, kv |-> << >>]
KV(key, value) == [k |-> key, val |-> value]

\* the typeof operator
TypeOf(v) ==
  CASE v.t \in {"object", "array", "null", "buffer"} -> "object"
    [] OTHER -> v.t

\* truthiness, as tested by !input, opts.debug &&, opts.output, ||
Truthy(v) ==
  CASE v.t \in {"undefined", "null"} -> FALSE
    [] v.t = "boolean" -> v.s = "true"
    [] v.t = "number" -> v.s # "NaN" /\ v.n # 0
    [] v.t = "string" -> v.s # ""
    [] OTHER -> TRUE

\* decimal text of a natural number
RECURSIVE NumToStr(_)
NumToStr(i) ==
  IF i < 10
  THEN CASE i = 0 -> "0" [] i = 1 -> "1" [] i = 2 -> "2" [] i = 3 -> "3"
         [] i = 4 -> "4" [] i = 5 -> "5" [] i = 6 -> "6" [] i = 7 -> "7"
         [] i = 8 -> "8" [] OTHER -> "9"
  ELSE NumToStr(i \div 10) \o NumToStr(i % 10)

\* Array.prototype.join over the texts of a sequence of strings
RECURSIVE JoinWith(_, _)
JoinWith(strs, sep) ==
  IF Len(strs) = 0 THEN ""
  ELSE IF Len(strs) = 1 THEN strs[1]
  ELSE strs[1] \o sep \o JoinWith(Tail(strs), sep)

\* string coercion ('' + v), as performed when a value is spliced into code
RECURSIVE JsToString(_)
JsToString(v) ==
  CASE v.t = "string" -> v.s
    [] v.t = "buffer" -> v.s
    [] v.t = "number" -> IF v.s = "NaN" THEN "NaN" ELSE NumToStr(v.n)
    [] v.t = "boolean" -> v.s
    [] v.t = "undefined" -> "undefined"
    [] v.t = "null" -> "null"
    [] v.t = "function" -> "function " \o v.s \o "() {}"
    [] v.t = "array" ->
         JoinWith([i \in 1..Len(v.kv) |->
                     IF v.kv[i].val.t \in {"undefined", "null"} THEN ""
                     ELSE JsToString(v.kv[i].val)], ",")
    [] OTHER -> "[object Object]"

\* property read o[key]; undefined when absent or when o is no object
HasField(o, key) ==
  o.t = "object" /\ \E i \in 1..Len(o.kv) : o.kv[i].k = key

GetField(o, key) ==
  IF HasField(o, key)
  THEN o.kv[CHOOSE i \in 1..Len(o.kv) : o.kv[i].k = key].val
  ELSE Undef

\* property write o[key] = value; a new key is appended
SetField(o, key, value) ==
  IF HasField(o, key)
  THEN Obj([i \in 1..Len(o.kv) |->
              IF o.kv[i].k = key THEN KV(key, value) ELSE o.kv[i]])
  ELSE Obj(Append(o.kv, KV(key, value)))

(***************************************************************************)
(* Serialisation: JSON.stringify(value, null, space) and parseInt(x, 10).  *)
(* String values of the model hold no character that JSON escapes.         *)
(***************************************************************************)
\* largest numeral parseInt is asked to read from a string
MaxNumeral == 10

\* parseInt(v, 10): the leading decimal numeral of the text of v, else NaN
parseInt(v) ==
  CASE v.t = "number" /\ v.s # "NaN" -> Num(v.n)
    [] v.t = "string" /\ (\E i \in 0..MaxNumeral : NumToStr(i) = v.s) ->
         Num(CHOOSE i \in 0..MaxNumeral : NumToStr(i) = v.s)
    [] OTHER -> NaN

RECURSIVE Spaces(_)
Spaces(i) == IF i <= 0 THEN "" ELSE " " \o Spaces(i - 1)

\* the gap of JSON.stringify for a numeric space: min(10, ToInteger(space))
\* blanks, NaN counting as 0
Gap(space) ==
  IF space.t = "number" /\ space.s # "NaN"
  THEN Spaces(IF space.n > 10 THEN 10 ELSE space.n)
  ELSE ""

Quote(x) == "\"" \o x \o "\""

\* values JSON.stringify leaves out of an object and turns to null in an array
Unserialisable(v) == v.t \in {"undefined", "function"}

RECURSIVE SerializeJSON(_, _, _)
SerializeJSON(v, gap, indent) ==
  LET stepback == indent
      inner == indent \o gap
      sep == IF gap = "" THEN "," ELSE ",\n" \o inner
      open == IF gap = "" THEN "" ELSE "\n" \o inner
      close == IF gap = "" THEN "" ELSE "\n" \o stepback
      colon == IF gap = "" THEN ":" ELSE ": "
  IN CASE v.t = "null" -> "null"
       [] v.t = "boolean" -> v.s
       [] v.t = "number" -> IF v.s = "NaN" THEN "null" ELSE NumToStr(v.n)
       [] v.t = "string" -> Quote(v.s)
       [] v.t = "array" ->
            IF Len(v.kv) = 0 THEN "[]"
            ELSE "[" \o open \o
                 JoinWith([i \in 1..Len(v.kv) |->
                             IF Unserialisable(v.kv[i].val) THEN "null"
                             ELSE SerializeJSON(v.kv[i].val, gap, inner)], sep)
                 \o close \o "]"
       [] OTHER ->
            LET kept == SelectSeq(v.kv, LAMBDA e : ~Unserialisable(e.val))
            IN IF Len(kept) = 0 THEN "{}"
               ELSE "{" \o open \o
                    JoinWith([i \in 1..Len(kept) |->
                                Quote(kept[i].k) \o colon \o
                                SerializeJSON(kept[i].val, gap, inner)], sep)
                    \o close \o "}"

\* JSON.stringify(v, null, space): undefined for undefined and functions
stringify(v, space) ==
  IF Unserialisable(v) THEN Undef ELSE Str(SerializeJSON(v, Gap(space), ""))

(***************************************************************************)
(* Options.                                                                *)
(***************************************************************************)
DEFAULT_INDENT == 2
DEFAULT_NOCOLOR == TRUE
DEFAULT_DEBUG == FALSE
DEFAULT_LINENOS == FALSE

DefaultOptions ==
  Obj(<< KV("debug", Bool(DEFAULT_DEBUG)),
         KV("indent", Num(DEFAULT_INDENT)),
         KV("no-color", Bool(DEFAULT_NOCOLOR)),
         KV("line-nos", Bool(DEFAULT_LINENOS)) >>)

\* defaults(options, defs) of the 'defaults' package as called by options and
\* _main: options = options || {}, then every key of defs whose value in
\* options is undefined is assigned on options, and options is returned.
RECURSIVE defaultsFrom(_, _, _)
defaultsFrom(o, defs, i) ==
  IF i > Len(defs.kv) THEN o
  ELSE defaultsFrom(IF TypeOf(GetField(o, defs.kv[i].k)) = "undefined"
                    THEN SetField(o, defs.kv[i].k, defs.kv[i].val)
                    ELSE o,
                    defs, i + 1)

\* a merge that tests the value for truth instead of for undefined
RECURSIVE defaultsOverFalsyFrom(_, _, _)
defaultsOverFalsyFrom(o, defs, i) ==
  IF i > Len(defs.kv) THEN o
  ELSE defaultsOverFalsyFrom(IF ~Truthy(GetField(o, defs.kv[i].k))
                             THEN SetField(o, defs.kv[i].k, defs.kv[i].val)
                             ELSE o,
                             defs, i + 1)

defaultsOverFalsy(o, defs) ==
  defaultsOverFalsyFrom(IF Truthy(o) THEN o ELSE Obj(<< >>), defs, 1)

defaults(o, defs) == defaultsFrom(IF Truthy(o) THEN o ELSE Obj(<< >>), defs, 1)

\* options(opts): a function in the options position counts as no options
options(o) == defaults(IF TypeOf(o) = "function" THEN Obj(<< >>) ELSE o,
                       DefaultOptions)

\* whether options(o) assigns on the very object the caller passed
MergesInPlace(o) == o.t = "object"

(***************************************************************************)
(* The isolated evaluation: sandbox.run(code, callback).                   *)
(***************************************************************************)
\* chunks standard input may deliver
Chunks == {"4", "2"}

RECURSIVE SeqsUpTo(_, _)
SeqsUpTo(S, i) ==
  IF i = 0 THEN {<< >>}
  ELSE SeqsUpTo(S, i - 1) \cup
       {Append(q, x) : q \in {r \in SeqsUpTo(S, i - 1) : Len(r) = i - 1}, x \in S}

ChunkSeqs == SeqsUpTo(Chunks, MaxChunks)

\* value of a decimal numeral made of the chunks, read left to right
RECURSIVE NumeralOf(_, _)
NumeralOf(q, acc) ==
  IF Len(q) = 0 THEN acc
  ELSE NumeralOf(Tail(q), acc * 10 + (IF q[1] = "4" THEN 4 ELSE 2))

ObjectSource == "{foo: 'bar', baz: 2}"
SumSource == "2 + 2"
QuotedSource == "'foo'"
BareSource == "foo"
BooleanSource == "true"
UndefinedSource == "undefined"
FunctionSource == "function () {}"
LoopSource == "(function () { for (;;); })()"
StatefulSource == "(this.n = (this.n || 0) + 1) > 1 ? 'b' : 1"

LiteralSources ==
  {ObjectSource, SumSource, QuotedSource, BareSource, BooleanSource,
   UndefinedSource, FunctionSource, LoopSource, StatefulSource}

\* every text that reaches the sandbox as the source expression
SourceTexts ==
  LiteralSources \cup {"", "0", "5", "[object Object]"}
    \cup {JoinWith(q, "") : q \in ChunkSeqs}
    \cup {JoinWith(q, ",") : q \in ChunkSeqs}

Value(v) == [kind |-> "value", val |-> v, err |-> ""]
Throws(msg) == [kind |-> "throw", val |-> Undef, err |-> msg]
SyntaxErr(msg) == [kind |-> "syntax", val |-> Undef, err |-> msg]
Loops == [kind |-> "loop", val |-> Undef, err |-> ""]

\* JavaScript semantics of the source texts: the outcome of the i-th
\* evaluation of the expression within one run of the generated code
Evaluate(text, i) ==
  CASE text = ObjectSource ->
         Value(Obj(<< KV("foo", Str("bar")), KV("baz", Num(2)) >>))
    [] text = SumSource -> Value(Num(4))
    [] text = QuotedSource -> Value(Str("foo"))
    [] text = BareSource -> Throws("ReferenceError: foo is not defined")
    [] text = BooleanSource -> Value(Bool(TRUE))
    [] text = UndefinedSource -> Value(Undef)
    [] text = FunctionSource -> Value(Fn(""))
    [] text = LoopSource -> Loops
    [] text = StatefulSource -> Value(IF i > 1 THEN Str("b") ELSE Num(1))
    [] text = "0" -> Value(Num(0))
    [] text = "5" -> Value(Num(5))
    [] text = "" -> SyntaxErr("SyntaxError: Unexpected token )")
    [] \E q \in ChunkSeqs : Len(q) > 0 /\ JoinWith(q, "") = text ->
         Value(Num(NumeralOf(CHOOSE q \in ChunkSeqs :
                               Len(q) > 0 /\ JoinWith(q, "") = text, 0)))
    [] \E q \in ChunkSeqs : Len(q) > 1 /\ JoinWith(q, ",") = text ->
         \* the comma operator yields its last operand
         LET q == CHOOSE r \in ChunkSeqs : Len(r) > 1 /\ JoinWith(r, ",") = text
         IN Value(Num(NumeralOf(<< q[Len(q)] >>, 0)))
    [] OTHER -> SyntaxErr("SyntaxError: Unexpected identifier")

\* the code parse hands to the sandbox
MakeFn(text) ==
  "(function() { console.log((" \o text \o
  ")); return typeof function() { return (" \o text \o ");}();})();"

\* util.inspect of a string
Inspect(x) == "'" \o x \o "'"

\* a logged value crosses the boundary as JSON
Bridge(v) == IF Unserialisable(v) THEN Null ELSE v

\* the record the sandbox passes to its callback: the inspected result of the
\* code and the values logged on its console
SandboxRun(code) ==
  LET text == CHOOSE x \in SourceTexts : MakeFn(x) = code
      e1 == Evaluate(text, 1)
      e2 == Evaluate(text, 2)
  IN CASE e1.kind = "syntax" -> [result |-> Inspect(e1.err), console |-> << >>]
       [] e1.kind = "loop" -> [result |-> "TimeoutError", console |-> << >>]
       [] e1.kind = "throw" -> [result |-> Inspect(e1.err), console |-> << >>]
       [] e2.kind = "loop" -> [result |-> "TimeoutError", console |-> << >>]
       [] e2.kind = "throw" ->
            [result |-> Inspect(e2.err), console |-> << Bridge(e1.val) >>]
       [] OTHER ->
            [result |-> Inspect(TypeOf(e2.val)), console |-> << Bridge(e1.val) >>]

\* the result strings parse accepts
AcceptedResults == {"'object'", "'string'", "'number'"}

Err(msg) == [t |-> "error", s |-> msg, n |-> 0, kv |-> << >>]

RejectionMessage(result) == "input evaluated to " \o result \o ", which is no good."

(***************************************************************************)
(* output(o, opts), after opts has been merged.                            *)
(***************************************************************************)
\* cardinal.highlight(text, {json: true, linenos: linenos})
Highlight(text, linenos) ==
  (IF linenos THEN "1: " ELSE "") \o "\\x1b[32m" \o text \o "\\x1b[39m"

\* a test for decoration that forgets the output file
DecoratesToFile(o, tty) ==
  tty /\ ~Truthy(GetField(o, "no-color"))

\* whether output decorates: an interactive terminal, colour not disabled,
\* no output file
Decorates(o, tty) ==
  tty /\ ~Truthy(GetField(o, "no-color")) /\ ~Truthy(GetField(o, "output"))

\* an output that loses the text when the highlighter throws
outputDropsText(v, o, tty, broken) ==
  LET plain == stringify(v, parseInt(GetField(o, "indent")))
  IN IF Decorates(o, tty)
     THEN IF broken \/ plain.t # "string"
          THEN [out |-> Undef, warned |-> << "Could not highlight!" >>]
          ELSE [out |-> Str(Highlight(plain.s, Truthy(GetField(o, "line-nos")))),
                warned |-> << >>]
     ELSE [out |-> plain, warned |-> << >>]

\* output(o, opts) for merged opts: the text returned and the warnings made
output(v, o, tty, broken) ==
  LET plain == stringify(v, parseInt(GetField(o, "indent")))
  IN IF Decorates(o, tty)
     THEN IF broken \/ plain.t # "string"
          THEN [out |-> plain, warned |-> << "Could not highlight!" >>]
          ELSE [out |-> Str(Highlight(plain.s, Truthy(GetField(o, "line-nos")))),
                warned |-> << >>]
     ELSE [out |-> plain, warned |-> << >>]

(***************************************************************************)
(* State.                                                                  *)
(***************************************************************************)
VARIABLES
  pc,          \* position of the invocation in the event loop
  entry,       \* the entry point called: j2j, parse, write, output, options
  cli,         \* whether the invocation comes from _main
  input,       \* first argument of the call
  optsArg,     \* second argument of the call, as the caller passed it
  cbArg,       \* third argument of the call
  optsObj,     \* present content of the object the caller passed as options
  opts,        \* the merged options of the pipeline
  returned,    \* what the call returned: none, promise, undefined, value
  retVal,      \* value returned by the synchronous entry points
  thrown,      \* exception that left the call or a callback uncaught
  sandboxRuns, \* code handed to sandbox.run, in order
  parseP,      \* dfrd.promise of parse
  midP,        \* promise of the first then of write
  outP,        \* promise at the end of the chain of the entry point
  cbCalls,     \* invocations of the completion callback
  serialized,  \* values handed to output by the pipeline, in order
  stdout,      \* texts written to process.stdout
  files,       \* writeFileSync calls that succeeded
  diag,        \* console.info / console.warn / console.error messages
  exits,       \* process.exit codes
  chunks,      \* chunks received on standard input
  stdinEnded,  \* the end event of standard input has been handled
  isTTY,       \* process.stdout.isTTY
  hlBroken,    \* the highlighter throws
  fsBroken,    \* writeFileSync throws
  calls,       \* concurrent invocations of parse / j2j, by number
  boxes,       \* the sandbox instances: the code each one runs
  crashed      \* an exception left a callback of a concurrent invocation

vars == << pc, entry, cli, input, optsArg, cbArg, optsObj, opts, returned,
           retVal, thrown, sandboxRuns, parseP, midP, outP, cbCalls, serialized,
           stdout,
           files, diag, exits, chunks, stdinEnded, isTTY, hlBroken,
           fsBroken, calls, boxes, crashed >>

env == << isTTY, hlBroken, fsBroken >>
stdin == << chunks, stdinEnded >>
callArgs == << entry, cli, input, optsArg, cbArg >>
io == << stdout, files, exits >>
pair == << calls, boxes, crashed >>
solo == << pc, callArgs, optsObj, opts, returned, retVal, thrown, sandboxRuns,
           parseP, midP, outP, cbCalls, serialized, diag, io, stdin >>

NoPromise == [state |-> "none", val |-> Undef]
Pending == [state |-> "pending", val |-> Undef]
Fulfilled(v) == [state |-> "fulfilled", val |-> v]
Rejected(e) == [state |-> "rejected", val |-> e]
Settled(p) == p.state \in {"fulfilled", "rejected"}

Log(stream, msg) == [stream |-> stream, msg |-> msg]

\* an invocation that has not been made
NoCall == [st |-> "none", fn |-> "none", input |-> Undef, opts |-> Undef,
           box |-> 0, parseP |-> NoPromise, outP |-> NoPromise]

(***************************************************************************)
(* Arguments the callers pass.                                             *)
(***************************************************************************)
Inputs ==
  {Str(x) : x \in LiteralSources \cup {""}} \cup
  {Num(5), Num(0), Bool(TRUE), Undef,
   Obj(<< KV("a", Num(1)) >>),
   Arr(<< KV("", Num(4)), KV("", Num(2)) >>)}

OptionObjects ==
  {Obj(<< >>),
   Obj(<< KV("indent", Bool(FALSE)) >>),
   Obj(<< KV("indent", Num(0)) >>),
   Obj(<< KV("indent", Num(4)), KV("extra", Str("x")) >>),
   Obj(<< KV("debug", Bool(TRUE)) >>),
   Obj(<< KV("output", Str("out.json")) >>),
   Obj(<< KV("line-nos", Bool(TRUE)) >>),
   Obj(<< KV("no-color", Bool(FALSE)), KV("line-nos", Bool(TRUE)) >>),
   Obj(<< KV("no-color", Bool(FALSE)), KV("output", Str("out.json")) >>)}

OptionArgs == OptionObjects \cup {Undef, Fn("cb")}

CallbackArgs == {Undef, Fn("done")}

\* values handed to output directly
OutputValues ==
  {Obj(<< KV("foo", Str("bar")), KV("baz", Num(2)) >>), Str("foo"), Num(4),
   Arr(<< KV("", Num(1)), KV("", Undef) >>), Undef}

Init ==
  /\ pc = "idle"
  /\ entry = "none"
  /\ cli = FALSE
  /\ input = Undef
  /\ optsArg = Undef
  /\ cbArg = Undef
  /\ optsObj = Undef
  /\ opts = Undef
  /\ returned = "none"
  /\ retVal = Undef
  /\ thrown = Undef
  /\ sandboxRuns = << >>
  /\ parseP = NoPromise
  /\ midP = NoPromise
  /\ outP = NoPromise
  /\ cbCalls = << >>
  /\ serialized = << >>
  /\ stdout = << >>
  /\ files = << >>
  /\ diag = << >>
  /\ exits = << >>
  /\ chunks = << >>
  /\ stdinEnded = FALSE
  /\ isTTY \in BOOLEAN
  /\ hlBroken \in BOOLEAN
  /\ fsBroken \in BOOLEAN
  /\ calls = [i \in 1..MaxCalls |-> NoCall]
  /\ boxes = << >>
  /\ crashed = FALSE

(***************************************************************************)
(* The synchronous part of the entry points.                               *)
(***************************************************************************)
\* the caller's options object after options(o) ran on it
AfterMerge(o) == IF MergesInPlace(o) THEN options(o) ELSE o

\* the console.info of parse in debug mode
DebugInfo(merged, code) ==
  IF Truthy(GetField(merged, "debug"))
  THEN << Log("info", "Executing:\n" \o code) >>
  ELSE << >>

\* the completion callback parse passes to nodeify: opts has been replaced by
\* the merged object before the test, so only the third argument is left
parseNodeback(o, cb) ==
  IF TypeOf(options(o)) = "function" THEN options(o) ELSE cb

\* the completion callback write and j2j pass to nodeify
Nodeback(o, cb) == IF TypeOf(o) = "function" THEN o ELSE cb

\* the completion callback of the invocation under way
CurrentNodeback ==
  IF entry = "parse" THEN parseNodeback(optsArg, cbArg)
  ELSE Nodeback(optsArg, cbArg)

\* promise.nodeify(nodeback) returns the promise only without a nodeback
NodeifyReturn(nodeback) == IF Truthy(nodeback) THEN "undefined" ELSE "promise"

AfterSettle(nodeback) == IF Truthy(nodeback) THEN "nodeback" ELSE "done"

\* parse(s, opts, callback) up to its return
CallParse(s, o, cb) ==
  /\ pc = "idle"
  /\ entry' = "parse"
  /\ input' = s
  /\ optsArg' = o
  /\ cbArg' = cb
  /\ optsObj' = AfterMerge(o)
  /\ opts' = options(o)
  /\ diag' = diag \o DebugInfo(options(o), MakeFn(JsToString(s)))
  /\ sandboxRuns' = Append(sandboxRuns, MakeFn(JsToString(s)))
  /\ parseP' = Pending
  /\ outP' = Pending
  /\ returned' = NodeifyReturn(parseNodeback(o, cb))
  /\ pc' = "sandbox"
  /\ UNCHANGED << cli, retVal, thrown, midP, cbCalls, io, stdin, env, serialized >>
  /\ UNCHANGED pair

\* write(input, opts, callback) up to its return
WriteCall(i, o, cb) ==
  /\ entry' = "write"
  /\ input' = i
  /\ optsArg' = o
  /\ cbArg' = cb
  /\ optsObj' = AfterMerge(o)
  /\ opts' = options(o)
  /\ diag' = diag \o DebugInfo(options(o), MakeFn(JsToString(i)))
  /\ sandboxRuns' = Append(sandboxRuns, MakeFn(JsToString(i)))
  /\ parseP' = Pending
  /\ midP' = Pending
  /\ outP' = Pending
  /\ returned' = NodeifyReturn(Nodeback(o, cb))
  /\ pc' = "sandbox"

CallWrite(i, o, cb) ==
  /\ pc = "idle"
  /\ WriteCall(i, o, cb)
  /\ UNCHANGED << cli, retVal, thrown, cbCalls, io, stdin, env, serialized >>
  /\ UNCHANGED pair

\* whether j2j serialises its input directly instead of evaluating it
j2jDirect(i) == TypeOf(i) = "string"

\* j2j(input, opts, callback) up to its return
CallJ2J(i, o, cb) ==
  /\ pc = "idle"
  /\ entry' = "j2j"
  /\ input' = i
  /\ optsArg' = o
  /\ cbArg' = cb
  /\ IF ~Truthy(i)
     THEN \* the throw happens while the argument of Q() is computed
          /\ thrown' = Err("input parameter cannot be empty")
          /\ pc' = "thrown"
          /\ optsObj' = o
          /\ UNCHANGED << opts, diag, sandboxRuns, parseP, outP, returned,
                          serialized >>
     ELSE /\ optsObj' = AfterMerge(o)
          /\ opts' = options(o)
          /\ returned' = NodeifyReturn(Nodeback(o, cb))
          /\ thrown' = thrown
          /\ IF j2jDirect(i)
             THEN LET r == output(i, options(o), isTTY, hlBroken)
                  IN /\ outP' = Fulfilled(r.out)
                     /\ diag' = diag \o [k \in 1..Len(r.warned) |->
                                           Log("warn", r.warned[k])]
                     /\ pc' = AfterSettle(Nodeback(o, cb))
                     /\ serialized' = Append(serialized, i)
                     /\ UNCHANGED << sandboxRuns, parseP >>
             ELSE /\ diag' = diag \o DebugInfo(options(o), MakeFn(JsToString(i)))
                  /\ sandboxRuns' = Append(sandboxRuns, MakeFn(JsToString(i)))
                  /\ parseP' = Pending
                  /\ outP' = Pending
                  /\ pc' = "sandbox"
                  /\ serialized' = serialized
  /\ UNCHANGED << cli, retVal, midP, cbCalls, io, stdin, env >>
  /\ UNCHANGED pair

\* output(o, opts): synchronous
CallOutput(v, o) ==
  /\ pc = "idle"
  /\ entry' = "output"
  /\ input' = v
  /\ optsArg' = o
  /\ optsObj' = AfterMerge(o)
  /\ opts' = options(o)
  /\ LET r == output(v, options(o), isTTY, hlBroken)
     IN /\ retVal' = r.out
        /\ diag' = diag \o [k \in 1..Len(r.warned) |-> Log("warn", r.warned[k])]
  /\ serialized' = Append(serialized, v)
  /\ returned' = "value"
  /\ pc' = "done"
  /\ UNCHANGED << cli, cbArg, thrown, sandboxRuns, parseP, midP, outP,
                  cbCalls, io, stdin, env >>
  /\ UNCHANGED pair

\* options(opts): synchronous
CallOptions(o) ==
  /\ pc = "idle"
  /\ entry' = "options"
  /\ optsArg' = o
  /\ optsObj' = AfterMerge(o)
  /\ opts' = options(o)
  /\ retVal' = options(o)
  /\ returned' = "value"
  /\ pc' = "done"
  /\ UNCHANGED << cli, input, cbArg, thrown, sandboxRuns, parseP, midP, outP,
                  cbCalls, diag, io, stdin, env, serialized >>
  /\ UNCHANGED pair

(***************************************************************************)
(* The handlers of the event loop.                                         *)
(***************************************************************************)
\* what the callback of sandbox.run does with the record it receives.  Its
\* parameter is named info and hides the chalk function info, so the debug
\* line of the rejecting branch calls the record and throws a TypeError.
Classify(result, merged) ==
  IF result \in AcceptedResults THEN "resolve"
  ELSE IF Truthy(GetField(merged, "debug")) THEN "throw"
  ELSE "reject"

\* the callback parse gives to sandbox.run
SandboxCallback ==
  /\ pc = "sandbox"
  /\ LET info == SandboxRun(sandboxRuns[Len(sandboxRuns)])
         verdict == Classify(info.result, opts)
         settled == IF verdict = "resolve"
                    THEN Fulfilled(IF Len(info.console) > 0
                                   THEN info.console[1] ELSE Undef)
                    ELSE Rejected(Str(RejectionMessage(info.result)))
     IN IF verdict = "throw"
        THEN /\ thrown' = Err("TypeError: info is not a function")
             /\ pc' = "crashed"
             /\ UNCHANGED << parseP, outP >>
        ELSE /\ parseP' = settled
             /\ thrown' = thrown
             /\ IF entry = "parse"
                THEN /\ outP' = settled
                     /\ pc' = AfterSettle(CurrentNodeback)
                ELSE /\ outP' = outP
                     /\ pc' = IF entry = "write" THEN "then1" ELSE "j2jthen"
  /\ UNCHANGED << callArgs, optsObj, opts, returned, retVal, sandboxRuns, midP,
                  cbCalls, diag, io, stdin, env, serialized >>
  /\ UNCHANGED pair

CoerceError == Err("cannot coerce input into anything JSON.stringify() can handle")

\* write: the handlers of parse(input, opts).then(...)
WriteThen1 ==
  /\ pc = "then1"
  /\ IF parseP.state = "fulfilled"
     THEN LET r == output(parseP.val, opts, isTTY, hlBroken)
          IN /\ midP' = Fulfilled(r.out)
             /\ serialized' = Append(serialized, parseP.val)
             /\ diag' = diag \o [k \in 1..Len(r.warned) |->
                                   Log("warn", r.warned[k])]
     ELSE /\ midP' = Rejected(CoerceError)
          /\ serialized' = serialized
          /\ diag' = IF Truthy(GetField(opts, "debug"))
                     THEN Append(diag, Log("error", parseP.val.s))
                     ELSE diag
  /\ pc' = "then2"
  /\ UNCHANGED << callArgs, optsObj, opts, returned, retVal, thrown,
                  sandboxRuns, parseP, outP, cbCalls, io, stdin, env >>
  /\ UNCHANGED pair

\* a test of a wrong option name for the destination
WritesToFileOption(merged) == Truthy(GetField(merged, "file"))

\* write: if (opts.output) the text goes to that file, else to stdout
WritesToFile(merged) == Truthy(GetField(merged, "output"))

\* write: the handlers of the second then
WriteThen2 ==
  /\ pc = "then2"
  /\ IF midP.state = "fulfilled"
     THEN /\ IF WritesToFile(opts)
             THEN IF fsBroken
                  THEN \* writeFileSync throws inside the fulfilment handler
                       /\ outP' = Rejected(Err("ENOENT"))
                       /\ UNCHANGED << stdout, files >>
                  ELSE /\ files' = Append(files,
                                     [path |-> GetField(opts, "output").s,
                                      text |-> midP.val])
                       /\ outP' = Fulfilled(Undef)
                       /\ stdout' = stdout
             ELSE /\ stdout' = Append(stdout, midP.val)
                  /\ outP' = Fulfilled(Undef)
                  /\ files' = files
          /\ pc' = AfterSettle(CurrentNodeback)
          /\ UNCHANGED << diag, exits >>
     ELSE /\ diag' = Append(diag, Log("error", midP.val.s))
          /\ IF ~Truthy(cbArg)
             THEN /\ exits' = Append(exits, 1)
                  /\ pc' = "exited"
                  /\ outP' = outP
             ELSE /\ exits' = exits
                  /\ outP' = Fulfilled(Undef)
                  /\ pc' = AfterSettle(CurrentNodeback)
          /\ UNCHANGED << stdout, files >>
  /\ UNCHANGED << callArgs, optsObj, opts, returned, retVal, thrown,
                  sandboxRuns, parseP, midP, cbCalls, stdin, env, serialized >>
  /\ UNCHANGED pair

\* j2j: the handler of parse(input, opts).then(...)
J2JThen ==
  /\ pc = "j2jthen"
  /\ IF parseP.state = "fulfilled"
     THEN LET r == output(parseP.val, opts, isTTY, hlBroken)
          IN /\ outP' = Fulfilled(r.out)
             /\ serialized' = Append(serialized, parseP.val)
             /\ diag' = diag \o [k \in 1..Len(r.warned) |->
                                   Log("warn", r.warned[k])]
     ELSE /\ outP' = parseP
          /\ diag' = diag
          /\ serialized' = serialized
  /\ pc' = AfterSettle(CurrentNodeback)
  /\ UNCHANGED << callArgs, optsObj, opts, returned, retVal, thrown,
                  sandboxRuns, parseP, midP, cbCalls, io, stdin, env >>
  /\ UNCHANGED pair

\* nodeify: the completion callback is called with the settlement
DeliverNodeback ==
  /\ pc = "nodeback"
  /\ Settled(outP)
  /\ cbCalls' = Append(cbCalls,
                  [fn |-> CurrentNodeback,
                   err |-> IF outP.state = "rejected" THEN outP.val ELSE Null,
                   val |-> IF outP.state = "fulfilled" THEN outP.val ELSE Undef])
  /\ pc' = "done"
  /\ UNCHANGED << callArgs, optsObj, opts, returned, retVal, thrown,
                  sandboxRuns, parseP, midP, outP, diag, io, stdin, env, serialized >>
  /\ UNCHANGED pair

(***************************************************************************)
(* The command line: _main.                                                *)
(***************************************************************************)
FileContents == ObjectSource

\* options the user may give on the command line
CommandLines ==
  {Obj(<< >>),
   Obj(<< KV("output", Str("out.json")) >>),
   Obj(<< KV("indent", Num(0)) >>),
   Obj(<< KV("debug", Bool(TRUE)) >>),
   Obj(<< KV("no-color", Bool(TRUE)) >>),
   Obj(<< KV("file", Str("in.js")) >>)}

\* positional source on the command line; undefined when absent
Positionals == {Undef, Str(""), Str(ObjectSource), Str(BareSource), Str(SumSource)}

\* argv as yargs builds it: the options given, the declared defaults
yargsArgv(given) ==
  defaults(given, Obj(<< KV("no-color", Bool(FALSE)),
                         KV("indent", Num(DEFAULT_INDENT)),
                         KV("line-nos", Bool(FALSE)),
                         KV("debug", Bool(FALSE)) >>))

\* the separator of chunks.join()
JoinSeparator == ","

\* _main up to its return: write is called at once or standard input is read
CallMain(given, positional) ==
  /\ pc = "idle"
  /\ cli' = TRUE
  /\ LET argv0 == yargsArgv(given)
         source == IF Truthy(GetField(argv0, "file"))
                   THEN Buf(FileContents) ELSE positional
         argv == defaults(argv0, Obj(<< KV("no-color", Bool(FALSE)) >>))
     IN IF ~Truthy(source)
        THEN /\ pc' = "stdin"
             /\ optsArg' = argv
             /\ optsObj' = argv
             /\ UNCHANGED << entry, input, cbArg, opts, returned, sandboxRuns,
                             parseP, midP, outP, diag >>
        ELSE WriteCall(source, argv, Undef)
  /\ UNCHANGED << retVal, thrown, cbCalls, io, stdin, env, serialized >>
  /\ UNCHANGED pair

\* stdin.on('data')
StdinData(chunk) ==
  /\ pc = "stdin"
  /\ Len(chunks) < MaxChunks
  /\ chunks' = Append(chunks, chunk)
  /\ UNCHANGED << pc, stdinEnded, callArgs, optsObj, opts, returned, retVal, thrown,
                  sandboxRuns, parseP, midP, outP, cbCalls, diag, io, env, serialized >>
  /\ UNCHANGED pair

\* stdin.on('end')
StdinEnd ==
  /\ pc = "stdin"
  /\ WriteCall(Str(JoinWith(chunks, JoinSeparator)), optsArg, Undef)
  /\ stdinEnded' = TRUE
  /\ UNCHANGED << cli, retVal, thrown, cbCalls, io, chunks, env, serialized >>
  /\ UNCHANGED pair

Next ==
  \/ \E i \in Inputs, o \in OptionArgs, cb \in CallbackArgs : CallJ2J(i, o, cb)
  \/ \E i \in Inputs, o \in OptionArgs, cb \in CallbackArgs : CallParse(i, o, cb)
  \/ \E i \in Inputs, o \in OptionArgs, cb \in CallbackArgs : CallWrite(i, o, cb)
  \/ \E v \in OutputValues, o \in OptionArgs : CallOutput(v, o)
  \/ \E o \in OptionArgs : CallOptions(o)
  \/ \E g \in CommandLines, p \in Positionals : CallMain(g, p)
  \/ \E c \in Chunks : StdinData(c)
  \/ StdinEnd
  \/ SandboxCallback
  \/ WriteThen1
  \/ WriteThen2
  \/ J2JThen
  \/ DeliverNodeback

Spec == Init /\ [][Next]_vars

(***************************************************************************)
(* Concurrent invocations of parse and j2j in one process.                 *)
(***************************************************************************)
\* parse: new (require('sandbox'))(), a new instance for every call
NewSandbox(bs) == Len(bs) + 1

\* sandbox.run(fn, ...): the instance runs the code
RunIn(bs, b, code) ==
  IF b > Len(bs) THEN Append(bs, code) ELSE [bs EXCEPT ![b] = code]

PairFns == {"parse", "j2j"}

PairInputs ==
  {Str(SumSource), Str(BooleanSource), Str(StatefulSource), Num(5), Bool(TRUE)}

PairOptions == {Undef, Obj(<< KV("debug", Bool(TRUE)) >>)}

\* invocation i: parse(s, o) or j2j(s, o), up to its return
PairCall(i, fn, s, o) ==
  /\ ~crashed
  /\ calls[i].st = "none"
  /\ \A j \in 1..MaxCalls : j < i => calls[j].st # "none"
  /\ \A j \in 1..MaxCalls : calls[j].st # "none" => calls[j].input # s
  /\ IF fn = "j2j" /\ j2jDirect(s)
     THEN /\ calls' = [calls EXCEPT ![i] =
                         [st |-> "done", fn |-> fn, input |-> s,
                          opts |-> options(o), box |-> 0,
                          parseP |-> NoPromise,
                          outP |-> Fulfilled(output(s, options(o), isTTY,
                                                    hlBroken).out)]]
          /\ boxes' = boxes
     ELSE LET b == NewSandbox(boxes)
          IN /\ calls' = [calls EXCEPT ![i] =
                            [st |-> "sandbox", fn |-> fn, input |-> s,
                             opts |-> options(o), box |-> b,
                             parseP |-> Pending, outP |-> Pending]]
             /\ boxes' = RunIn(boxes, b, MakeFn(JsToString(s)))
  /\ UNCHANGED << crashed, solo, env >>

\* the callback invocation i gave to sandbox.run
PairSandboxCallback(i) ==
  /\ ~crashed
  /\ calls[i].st = "sandbox"
  /\ LET info == SandboxRun(boxes[calls[i].box])
         verdict == Classify(info.result, calls[i].opts)
         settled == IF verdict = "resolve"
                    THEN Fulfilled(IF Len(info.console) > 0
                                   THEN info.console[1] ELSE Undef)
                    ELSE Rejected(Str(RejectionMessage(info.result)))
     IN IF verdict = "throw"
        THEN /\ crashed' = TRUE
             /\ calls' = calls
        ELSE /\ crashed' = crashed
             /\ calls' = [calls EXCEPT
                            ![i].parseP = settled,
                            ![i].outP = IF calls[i].fn = "parse"
                                        THEN settled ELSE @,
                            ![i].st = IF calls[i].fn = "parse"
                                      THEN "done" ELSE "j2jthen"]
  /\ UNCHANGED << boxes, solo, env >>

\* j2j: the handler invocation i put on the promise of parse
PairJ2JThen(i) ==
  /\ ~crashed
  /\ calls[i].st = "j2jthen"
  /\ calls' = [calls EXCEPT
                 ![i].outP = IF calls[i].parseP.state = "fulfilled"
                             THEN Fulfilled(output(calls[i].parseP.val,
                                                   calls[i].opts, isTTY,
                                                   hlBroken).out)
                             ELSE calls[i].parseP,
                 ![i].st = "done"]
  /\ UNCHANGED << boxes, crashed, solo, env >>

PairNext ==
  \/ \E i \in 1..MaxCalls, fn \in PairFns, s \in PairInputs, o \in PairOptions :
        PairCall(i, fn, s, o)
  \/ \E i \in 1..MaxCalls : PairSandboxCallback(i)
  \/ \E i \in 1..MaxCalls : PairJ2JThen(i)

PairSpec == Init /\ [][PairNext]_vars

(***************************************************************************)
(* Properties.                                                             *)
(***************************************************************************)
Finished == pc \in {"done", "thrown", "crashed", "exited"}
CompactObject == Str("{\"foo\":\"bar\",\"baz\":2}")
EmptyInputError == Err("input parameter cannot be empty")

\* C1: j2j evaluates a non-empty string input once and fulfils with the
\* serialisation of the evaluated value (the documented example gives the
\* compact object text); a non-string input is never evaluated and the
\* promise fulfils with its direct serialisation.
C1_StringEvaluatedElseDirect ==
  (entry = "j2j" /\ Truthy(input) /\ pc # "idle") =>
     IF TypeOf(input) = "string"
     THEN /\ sandboxRuns = << MakeFn(input.s) >>
          /\ (input.s = ObjectSource /\ Finished
              /\ GetField(optsArg, "indent") \in {Bool(FALSE), Num(0)})
               => outP = Fulfilled(CompactObject)
     ELSE /\ sandboxRuns = << >>
          /\ outP = Fulfilled(output(input, opts, isTTY, hlBroken).out)

\* C2: in j2j and in write, also when _main read an empty standard input, a
\* zero-length input string fails with the empty-input error and the
\* sandbox is never run.
C2_EmptyInputNeverEvaluated ==
  (entry \in {"j2j", "write"} /\ input = Str("")) =>
     /\ sandboxRuns = << >>
     /\ Finished =>
          \/ thrown = EmptyInputError
          \/ outP = Rejected(EmptyInputError)

\* a completion handler was supplied to the call
HandlerSupplied == TypeOf(optsArg) = "function" \/ Truthy(cbArg)

\* C3: when evaluation or classification fails inside write, a supplied
\* completion callback receives the error, the promise is rejected and the
\* process is not terminated; without a completion handler the process
\* exits with a non-zero status; a failure is never reported as a success.
C3_WriteFailureRaisedOrExit ==
  (entry = "write" /\ ~cli /\ parseP.state = "rejected" /\ Finished) =>
     IF HandlerSupplied
     THEN /\ exits = << >>
          /\ outP.state = "rejected"
          /\ Len(cbCalls) = 1
          /\ cbCalls[1].err # Null
     ELSE exits = << 1 >>

\* C4: a function in the options position of parse, write or j2j (no third
\* argument) is the completion callback: called exactly once when the
\* operation settles, with the error on failure and the result on success,
\* and the options in effect are the defaults.
C4_FunctionOptsIsCallback ==
  (entry \in {"parse", "write", "j2j"} /\ ~cli /\ TypeOf(optsArg) = "function"
     /\ cbArg = Undef) =>
     /\ Len(cbCalls) <= 1
     /\ (pc # "idle" /\ pc # "thrown") => opts = DefaultOptions
     /\ pc = "done" =>
          /\ Len(cbCalls) = 1
          /\ cbCalls[1].fn = optsArg
          /\ (parseP.state = "rejected") = (cbCalls[1].err # Null)

\* the result string of the sandbox run of this invocation
RunResult == SandboxRun(sandboxRuns[Len(sandboxRuns)]).result

\* C5: parse fulfils exactly when the reported type tag is object, string
\* or number; for every other outcome it rejects with the message naming
\* the offending tag; its promise is settled once the sandbox reported.
C5_ParseSettlesByTag ==
  (entry = "parse" /\ pc \notin {"idle", "sandbox"}) =>
     IF RunResult \in AcceptedResults
     THEN parseP.state = "fulfilled"
     ELSE parseP = Rejected(Str(RejectionMessage(RunResult)))

\* the pipeline of the command failed
PipelineFailed ==
  \/ pc = "crashed"
  \/ parseP.state = "rejected"
  \/ midP.state = "rejected"
  \/ outP.state = "rejected"

\* the process ended with a non-zero status: process.exit(1), or an
\* exception no one caught
NonZeroExit == exits = << 1 >> \/ pc = "crashed"

\* C6: as a terminal command, every pipeline failure ends in an exit with a
\* non-zero status, and a successful run never exits with one.
C6_CommandFailureExitsNonZero ==
  (cli /\ entry = "write" /\ Finished) => (PipelineFailed <=> NonZeroExit)

\* C7: j2j, parse and write return a promise for every input, and no
\* failure leaves the call as a synchronous exception.
C7_AlwaysReturnsPromise ==
  (entry \in {"j2j", "parse", "write"} /\ ~cli /\ pc # "idle") =>
     /\ pc # "thrown"
     /\ returned = "promise"

\* C8: without a positional source and without --file, write receives the
\* in-order concatenation of the chunks of standard input, exactly once and
\* only after end-of-stream.
C8_StdinConcatenated ==
  /\ (cli /\ pc = "stdin") => (entry = "none" /\ sandboxRuns = << >>)
  /\ (cli /\ stdinEnded) =>
        /\ input = Str(JoinWith(chunks, ""))
        /\ sandboxRuns = << MakeFn(JoinWith(chunks, "")) >>

\* keys of an options object
Keys(o) == {o.kv[i].k : i \in 1..Len(o.kv)}

C10_OptionsPure ==
  /\ [](~cli => optsObj = optsArg)
  /\ [][opts # Undef => opts' = opts]_vars

\* messages on the diagnostic streams
DiagMessages == {diag[i].msg : i \in 1..Len(diag)}

\* the invocation failed
InvocationFailed ==
  \/ pc \in {"thrown", "crashed"}
  \/ parseP.state = "rejected"
  \/ midP.state = "rejected"
  \/ outP.state = "rejected"

\* the failure as the caller gets it: the exception, the rejection, or the
\* error the last handler of write prints before the exit
SurfacedFailures ==
  (IF pc \in {"thrown", "crashed"} THEN {thrown.s} ELSE {})
    \cup (IF outP.state = "rejected" THEN {outP.val.s} ELSE {})
    \cup (IF midP.state = "rejected" THEN {midP.val.s} ELSE {})

\* C11: every failure of j2j or write other than a decoration warning
\* reaches the caller as the one generic 'cannot coerce input ...' failure,
\* without the internal cause; the cause is put on the diagnostic stream
\* exactly when opts.debug is true.
C11_FailureWrappedCauseOnDebug ==
  (entry \in {"j2j", "write"} /\ Finished /\ InvocationFailed) =>
     /\ SurfacedFailures = {CoerceError.s}
     /\ parseP.state = "rejected" =>
          ((parseP.val.s \in DiagMessages) <=> Truthy(GetField(opts, "debug")))

(***************************************************************************)
(* Serialising and decorating.                                             *)
(***************************************************************************)
\* the undecorated serialisation of the value the invocation serialised
PlainText == stringify(serialized[1], parseInt(GetField(opts, "indent")))

\* the text the Serializer produced in this invocation
ProducedText ==
  IF entry = "output" THEN retVal
  ELSE IF entry = "write" THEN midP.val
  ELSE outP.val

WarnCount == Cardinality({i \in 1..Len(diag) : diag[i].stream = "warn"})

WantsDecoration ==
  /\ isTTY
  /\ ~Truthy(GetField(opts, "no-color"))
  /\ ~Truthy(GetField(opts, "output"))

\* the Serializer called the highlighter and the highlighter threw
HighlighterRaised ==
  /\ serialized # << >>
  /\ WantsDecoration
  /\ (hlBroken \/ PlainText.t # "string")

\* C12: when the highlighter throws, serialising does not throw: exactly one
\* warning is made, the undecorated text is what is produced, and the
\* pipeline goes on (write still prints that text)
C12_HighlightFailureIsWarning ==
  HighlighterRaised =>
    /\ pc \notin {"thrown", "crashed", "exited"}
    /\ WarnCount = 1
    /\ ProducedText = PlainText
    /\ (entry \in {"j2j", "write"} /\ pc = "done") => outP.state = "fulfilled"
    /\ (entry = "write" /\ pc = "done") => stdout = << PlainText >>

C12_Witness ==
  /\ HighlighterRaised
  /\ hlBroken
  /\ PlainText.t = "string"
  /\ entry = "write"
  /\ pc = "done"

Classified == sandboxRuns # << >> /\ pc \notin {"idle", "stdin", "sandbox"}

\* C14: for a source that does not terminate, parse settles: its promise is
\* rejected with the execution failure 'timeout' itself, not with a message
\* about a rejected type tag
C14_TimeoutPassesUnchanged ==
  (entry = "parse" /\ Classified /\ input = Str(LoopSource)) =>
     /\ parseP.state = "rejected"
     /\ parseP.val = Str("timeout")

\* the same options with debug off
DebugOff(o) == SetField(o, "debug", Bool(FALSE))

\* C15: debug mode does not alter the outcome: once the evaluation has come
\* back, j2j and write stand where the run with the same input and the same
\* options but debug off stands (value accepted, or failure delivered as a
\* rejection)
C15_DebugKeepsOutcome ==
  (entry \in {"j2j", "write"} /\ Classified) =>
     parseP.state = (IF Classify(RunResult, DebugOff(opts)) = "resolve"
                     THEN "fulfilled" ELSE "rejected")

\* C16: in j2j and write the Serializer runs only after the evaluation
\* callback accepted the value, and on that value; after a failed or
\* rejected evaluation it does not run and nothing is written
C16_StagesInOrder ==
  entry \in {"j2j", "write"} =>
     /\ serialized # << >> =>
           (parseP.state = "fulfilled" /\ serialized = << parseP.val >>)
     /\ (parseP.state = "rejected" \/ pc = "crashed") =>
           (serialized = << >> /\ stdout = << >> /\ files = << >>)

\* C17: the value parse accepts has the type tag parse accepted
C17_ValueHasAcceptedTag ==
  (entry = "parse" /\ parseP.state = "fulfilled") =>
     Inspect(TypeOf(parseP.val)) = RunResult

\* write succeeded: the value was accepted and the last handler fulfilled
WriteSucceeded ==
  /\ entry = "write"
  /\ parseP.state = "fulfilled"
  /\ outP.state = "fulfilled"

\* C18: on success write delivers the text output(value, opts) exactly once,
\* to the file opts.output when that is set and else to standard output, and
\* nothing to the other destination
C18_OneDestinationOnce ==
  WriteSucceeded =>
    LET text == output(parseP.val, opts, isTTY, hlBroken).out
    IN IF Truthy(GetField(opts, "output"))
       THEN /\ files = << [path |-> GetField(opts, "output").s, text |-> text] >>
            /\ stdout = << >>
       ELSE /\ stdout = << text >>
            /\ files = << >>

C18_Witness ==
  /\ WriteSucceeded
  /\ files # << >>
  /\ pc = "done"

(***************************************************************************)
(* Independence of concurrent invocations.                                 *)
(***************************************************************************)
\* what the evaluation of invocation i's own input comes to
OwnRun(i) == SandboxRun(MakeFn(JsToString(calls[i].input)))

OwnVerdict(i) ==
  IF calls[i].fn = "j2j" /\ j2jDirect(calls[i].input) THEN "direct"
  ELSE Classify(OwnRun(i).result, calls[i].opts)

\* how invocation i settles when it is the only one
OwnOutcome(i) ==
  LET value == IF Len(OwnRun(i).console) > 0 THEN OwnRun(i).console[1] ELSE Undef
      text(v) == output(v, calls[i].opts, isTTY, hlBroken).out
  IN CASE OwnVerdict(i) = "direct" -> Fulfilled(text(calls[i].input))
       [] OwnVerdict(i) = "resolve" ->
            Fulfilled(IF calls[i].fn = "j2j" THEN text(value) ELSE value)
       [] OTHER -> Rejected(Str(RejectionMessage(OwnRun(i).result)))

\* C19: concurrent invocations are independent: an invocation that has
\* settled has the outcome of its own input, and an invocation that settles
\* when it runs alone is not left unsettled by what the other one did
C19_InvocationsIndependent ==
  \A i \in 1..MaxCalls :
    /\ Settled(calls[i].outP) => calls[i].outP = OwnOutcome(i)
    /\ (crashed /\ calls[i].st # "none" /\ OwnVerdict(i) # "throw") =>
          Settled(calls[i].outP)
====
